---- MODULE Spec2Model ----
(***************************************************************************)
(* Model of the runtime script that create_static_webpage.py emits into    *)
(* the transcript page: the synchronization engine (timeupdate, scroll,    *)
(* pause, seeking, auto-scroll toggle, cue click) and the search engine    *)
(* (query input, next, previous), as event handlers that run to            *)
(* completion one at a time.                                               *)
(*                                                                         *)
(* Text is a sequence of one-character strings.  Time is counted in whole  *)
(* seconds.  Cue i of the document is the i-th .speakertext element.       *)
(***************************************************************************)
EXTENDS Integers, Sequences, FiniteSets, TLC

\* ------------------------------------------------------------------ bounds

\* Number of cues (.speakertext elements) of the rendered document.
NumCues == 3

\* Playback positions range over 0..MaxTime seconds.
MaxTime == 3

\* Longest search query typed into the search box.
MaxQueryLen == 2

\* The longest input file, in lines.
MaxLines == 5

\* The longest timestamp, in characters.
MaxStampLen == 5

\* The longest cue list handed to the grouping loop directly.
MaxRunCues == 3

\* The most text lines of the block whose spelling is corrected.
MaxTextLines == 3

\* ------------------------------------------------------- program constants

\* setTimeout(..., 2000): the scroll quiet period, in seconds.
DebounceDelay == 2

\* searchTerm.length < 2: shorter queries clear the search.
MinQueryLen == 2

\* ---------------------------------------------------------------- document

Cues == 1..NumCues

Times == 0..MaxTime

\* "No element": null in the script.
NoElement == 0

\* Every assignment of a start time to the cues.  parse_vtt_file appends cues
\* in file order and never sorts them, so unsorted lists are documents too.
AllDocuments == [Cues -> Times]

\* The document of the viewing session: start times with a tie (1, 1, 2, 2,
\* ...), all after position 0, so that position 0 is before every cue.
Document == [i \in Cues |-> (i + 1) \div 2]

\* The characters of cue texts and queries: two letters, one of them in both
\* cases, and two characters that are special in a regular expression.
Alphabet == {"a", "A", "b", ".", "("}

\* The cue texts, repeated cyclically over the cues.
Texts == << <<"a", "b", ".", "a">>,
           <<"a", "A", "a", "b">>,
           <<"(", "A", "b", ".">> >>

CueText(i) == Texts[((i - 1) % Len(Texts)) + 1]

VARIABLES
    dataTime,            \* data-time of each .speakertext, fixed at generation
    autoScrollEnabled,   \* let autoScrollEnabled
    currentActiveElement,\* let currentActiveElement (a cue or NoElement)
    userIsScrolling,     \* let userIsScrolling
    scrollTimeout,       \* let scrollTimeout (a timer id, 0 before the first)
    timers,              \* pending setTimeout callbacks: id -> seconds left
    activeClass,         \* the cues whose classList contains 'active'
    scrollTop,           \* where #transcript-container is scrolled to
    scrollEventQueued,   \* a scroll event caused by scrollIntoView is queued
    paused,              \* video.paused
    currentTime,         \* video.currentTime
    timeupdateQueued,    \* a timeupdate caused by a seek is queued
    sinceManualScroll,   \* observer: seconds since the last manual scroll,
                         \* counted up to DebounceDelay
    manualScrollSinceSeek,\* observer: a manual scroll came after the last seek
    pausedByEvent,       \* observer: a pause event stopped playback and it has
                         \* not resumed
    searchTerm,          \* searchInput.value as last handled
    cueNodes,            \* child nodes of each .speakertext
    searchMatches,       \* let searchMatches: the highlight spans, in order
    currentMatchIndex,   \* let currentMatchIndex
    searchInfo,          \* searchInfo.textContent
    prevDisabled,        \* prevButton.disabled
    nextDisabled,        \* nextButton.disabled
    ev                   \* the event handled last ("input:SyntaxError": the
                         \* input handler ended in an uncaught SyntaxError)

syncVars == <<dataTime, autoScrollEnabled, currentActiveElement, userIsScrolling,
              scrollTimeout, timers, activeClass, scrollTop, scrollEventQueued,
              paused, currentTime, timeupdateQueued>>

\* What an observer of the session records; no handler reads it.
observerVars == <<sinceManualScroll, manualScrollSinceSeek, pausedByEvent>>

searchVars == <<searchTerm, cueNodes, searchMatches, currentMatchIndex, searchInfo,
                prevDisabled, nextDisabled>>

\* The state of the generator (parse_vtt_file, then the grouping loop of
\* generate_html).
VARIABLES
    lines,               \* lines = f.read().splitlines()
    idx,                 \* i, the index into lines (from 0)
    cues,                \* cues, each (speaker, start_time, text)
    warnings,            \* the warnings printed, in order
    start_time,          \* start_time of the block being read
    speaker,             \* speaker of the block being read
    text_lines,          \* text_lines of the block being read
    last_speaker,        \* last_speaker of generate_html
    sections,            \* the speaker-section divs written so far
    cueNo,               \* how many cues the grouping loop has handled
    stage                \* where the generator is: "seek" (head of the outer
                         \* loop), "text" (head of the inner loop), "returned"
                         \* (parse_vtt_file has returned), "raised" (an
                         \* exception has left it), "group" (head of the
                         \* grouping loop), "done" (the page is written)

parseVars == <<lines, idx, cues, warnings, start_time, speaker, text_lines, stage>>

groupVars == <<last_speaker, sections, cueNo>>

\* Everything of the page in the browser.
pageVars == <<syncVars, searchVars, observerVars, ev>>

vars == <<pageVars, parseVars, groupVars>>

\* ------------------------------------------------------------ timer helpers

PendingIds == DOMAIN timers

\* setTimeout hands out an id that no pending timer holds.
FreshTimerId(ts) == CHOOSE id \in 1..(Cardinality(DOMAIN ts) + 1) : id \notin DOMAIN ts

\* clearTimeout(id): an unknown or expired id is ignored.
ClearTimeout(ts, id) == [k \in (DOMAIN ts) \ {id} |-> ts[k]]

\* setTimeout(callback, delay).
SetTimeout(ts, id, delay) == [k \in (DOMAIN ts) \cup {id} |-> IF k = id THEN delay ELSE ts[k]]

\* ----------------------------------------------------------- sync handlers

\* The reverse scan turned into a forward scan: the first cue at or before t.
FindActiveElementForward(t) ==
    IF \E i \in Cues : t >= dataTime[i]
    THEN CHOOSE i \in Cues : /\ t >= dataTime[i]
                             /\ \A j \in Cues : j < i => ~(t >= dataTime[j])
    ELSE NoElement

\* The reverse scan of the timeupdate handler: the last cue in document order
\* with currentTime >= data-time, or null.
FindActiveElement(t) ==
    IF \E i \in Cues : t >= dataTime[i]
    THEN CHOOSE i \in Cues : /\ t >= dataTime[i]
                             /\ \A j \in Cues : j > i => ~(t >= dataTime[j])
    ELSE NoElement

\* classList.remove('active') forgotten.
RemoveActiveForgotten(classes, element) == classes

\* currentActiveElement.classList.remove('active'), on the classes of all cues.
RemoveActive(classes, element) == classes \ {element}

\* The guard of the timeupdate listener with 'and' for 'or'.
TimeUpdateSuppressedBoth == ~autoScrollEnabled /\ userIsScrolling

\* if (!autoScrollEnabled || userIsScrolling) return;
TimeUpdateSuppressed == ~autoScrollEnabled \/ userIsScrolling

\* autoscrollToggle click.
ToggleAutoScroll ==
    /\ autoScrollEnabled' = ~autoScrollEnabled
    /\ ev' = "toggle"
    /\ UNCHANGED searchVars
    /\ UNCHANGED <<dataTime, currentActiveElement, userIsScrolling, scrollTimeout,
                   timers, activeClass, scrollTop, scrollEventQueued, paused,
                   currentTime, timeupdateQueued>>

\* The body of the 'scroll' listener of #transcript-container.
ScrollHandler ==
    IF autoScrollEnabled
    THEN /\ userIsScrolling' = TRUE
         /\ LET cleared == ClearTimeout(timers, scrollTimeout)
                id == FreshTimerId(cleared)
            IN /\ timers' = SetTimeout(cleared, id, DebounceDelay)
               /\ scrollTimeout' = id
    ELSE UNCHANGED <<userIsScrolling, timers, scrollTimeout>>

\* The user scrolls the transcript to position p; the scroll event is handled.
ManualScroll(p) ==
    /\ p # scrollTop
    /\ scrollTop' = p
    /\ ScrollHandler
    /\ ev' = "manualscroll"
    /\ UNCHANGED searchVars
    /\ UNCHANGED <<dataTime, autoScrollEnabled, currentActiveElement, activeClass,
                   scrollEventQueued, paused, currentTime, timeupdateQueued>>

\* The scroll event that a scrollIntoView call caused is handled: the
\* listener cannot tell it from a manual scroll.
ProgrammaticScrollEvent ==
    /\ scrollEventQueued
    /\ scrollEventQueued' = FALSE
    /\ ScrollHandler
    /\ ev' = "scrollevent"
    /\ UNCHANGED searchVars
    /\ UNCHANGED <<dataTime, autoScrollEnabled, currentActiveElement, activeClass,
                   scrollTop, paused, currentTime, timeupdateQueued>>

\* The debounce callback: userIsScrolling = false.
ScrollTimeoutFires(id) ==
    /\ id \in PendingIds
    /\ timers[id] = 0
    /\ timers' = ClearTimeout(timers, id)
    /\ userIsScrolling' = FALSE
    /\ ev' = "timeout"
    /\ UNCHANGED searchVars
    /\ UNCHANGED <<dataTime, autoScrollEnabled, currentActiveElement, scrollTimeout,
                   activeClass, scrollTop, scrollEventQueued, paused, currentTime,
                   timeupdateQueued>>

\* One second passes for the pending timers.
Tick ==
    /\ timers' = [id \in PendingIds |-> IF timers[id] > 0 THEN timers[id] - 1 ELSE 0]
    /\ ev' = "tick"
    /\ UNCHANGED searchVars
    /\ UNCHANGED <<dataTime, autoScrollEnabled, currentActiveElement, userIsScrolling,
                   scrollTimeout, activeClass, scrollTop, scrollEventQueued, paused,
                   currentTime, timeupdateQueued>>

\* The body of the 'timeupdate' listener, run with video.currentTime = t.
TimeUpdateHandler(t) ==
    IF TimeUpdateSuppressed
    THEN UNCHANGED <<currentActiveElement, activeClass, scrollTop, scrollEventQueued>>
    ELSE LET activeElement == FindActiveElement(t) IN
         IF activeElement # NoElement /\ activeElement # currentActiveElement
         THEN /\ activeClass' = RemoveActive(activeClass, currentActiveElement) \cup {activeElement}
              /\ currentActiveElement' = activeElement
              \* scrollIntoView: a scroll event follows when the position moves
              /\ scrollTop' = activeElement
              /\ scrollEventQueued' = (scrollEventQueued \/ scrollTop # activeElement)
         ELSE UNCHANGED <<currentActiveElement, activeClass, scrollTop, scrollEventQueued>>

\* A timeupdate event: playback has advanced to t, or a seek has landed.
TimeUpdate(t) ==
    /\ \/ ~paused /\ t >= currentTime
       \/ timeupdateQueued /\ t = currentTime
    /\ currentTime' = t
    /\ timeupdateQueued' = FALSE
    /\ TimeUpdateHandler(t)
    /\ ev' = "timeupdate"
    /\ UNCHANGED searchVars
    /\ UNCHANGED <<dataTime, autoScrollEnabled, userIsScrolling, scrollTimeout, timers,
                   paused>>

\* The 'pause' listener.
Pause ==
    /\ ~paused
    /\ paused' = TRUE
    /\ IF currentActiveElement # NoElement
       THEN /\ activeClass' = RemoveActive(activeClass, currentActiveElement)
            /\ currentActiveElement' = NoElement
       ELSE UNCHANGED <<activeClass, currentActiveElement>>
    /\ ev' = "pause"
    /\ UNCHANGED searchVars
    /\ UNCHANGED <<dataTime, autoScrollEnabled, userIsScrolling, scrollTimeout, timers,
                   scrollTop, scrollEventQueued, currentTime, timeupdateQueued>>

\* The user presses play; the script has no 'play' listener.
Play ==
    /\ paused
    /\ paused' = FALSE
    /\ ev' = "play"
    /\ UNCHANGED searchVars
    /\ UNCHANGED <<dataTime, autoScrollEnabled, currentActiveElement, userIsScrolling,
                   scrollTimeout, timers, activeClass, scrollTop, scrollEventQueued,
                   currentTime, timeupdateQueued>>

\* The body of the 'seeking' listener.
SeekingHandler ==
    userIsScrolling' = FALSE

\* The user moves the playback position to t.
Seek(t) ==
    /\ currentTime' = t
    /\ timeupdateQueued' = TRUE
    /\ SeekingHandler
    /\ ev' = "seeking"
    /\ UNCHANGED searchVars
    /\ UNCHANGED <<dataTime, autoScrollEnabled, currentActiveElement, scrollTimeout,
                   timers, activeClass, scrollTop, scrollEventQueued, paused>>

\* handleClick on cue i: video.currentTime = data-time, then video.play(),
\* whose promise may be rejected (playback prevented).
Click(i, played) ==
    /\ currentTime' = dataTime[i]
    /\ timeupdateQueued' = TRUE
    /\ SeekingHandler
    /\ paused' = IF played THEN FALSE ELSE paused
    /\ ev' = "click"
    /\ UNCHANGED searchVars
    /\ UNCHANGED <<dataTime, autoScrollEnabled, currentActiveElement, scrollTimeout,
                   timers, activeClass, scrollTop, scrollEventQueued>>

\* ----------------------------------------------------------- search engine

\* Case folding of the 'i' flag.
Fold(c) == IF c = "A" THEN "a" ELSE c

\* The characters of the class [.*+?^${}()|[\\] of the emitted expression
\* /[.*+?^${}()|[\\]\\\\]/g: the class ends at its first unescaped ']'.
EscapeClass == {".", "*", "+", "?", "^", "$", "{", "}", "(", ")", "|", "[", "\\"}

\* The emitted expression matches at position i of q: a character of the
\* class, then two backslashes, then ']'.
EscapeMatchAt(q, i) ==
    /\ i + 3 <= Len(q)
    /\ q[i] \in EscapeClass
    /\ q[i + 1] = "\\"
    /\ q[i + 2] = "\\"
    /\ q[i + 3] = "]"

RECURSIVE EscapeFrom(_, _)
EscapeFrom(q, i) ==
    IF i > Len(q) THEN <<>>
    ELSE IF EscapeMatchAt(q, i)
         THEN <<"\\">> \o SubSeq(q, i, i + 3) \o EscapeFrom(q, i + 4)
         ELSE <<q[i]>> \o EscapeFrom(q, i + 1)

\* searchTerm.replace(/[.*+?^${}()|[\\]\\\\]/g, '\\$&'): a backslash is put
\* before every match of the emitted expression.
EscapeQuery(q) == EscapeFrom(q, 1)

\* new RegExp(pattern, 'gi') throws a SyntaxError for an opening parenthesis
\* that is never closed (the alphabet has no closing one).
RegExpThrows(pattern) == \E k \in 1..Len(pattern) : pattern[k] = "("

\* One pattern character against one text character under 'gi': '.' matches
\* any character (cue text has no line terminator), a letter matches itself in
\* either case.
AtomMatches(pc, tc) == pc = "." \/ Fold(pc) = Fold(tc)

\* The pattern matches text at position i.
RegExpMatchAt(pattern, text, i) ==
    /\ i + Len(pattern) - 1 <= Len(text)
    /\ \A k \in 1..Len(pattern) : AtomMatches(pattern[k], text[i + k - 1])

\* text.matchAll(regex): the start positions of the matches, left to right,
\* the search resuming where the previous match ended.
RECURSIVE MatchAllFrom(_, _, _)
MatchAllFrom(pattern, text, i) ==
    IF i > Len(text) THEN <<>>
    ELSE IF RegExpMatchAt(pattern, text, i)
         THEN <<i>> \o MatchAllFrom(pattern, text, i + Len(pattern))
         ELSE MatchAllFrom(pattern, text, i + 1)

MatchAll(pattern, text) == MatchAllFrom(pattern, text, 1)

TextNode(t) == [hl |-> FALSE, cur |-> FALSE, text |-> t]

\* A span that holds the matched text in lower case.
MarkNodeFolded(t) == [hl |-> TRUE, cur |-> FALSE, text |-> [k \in 1..Len(t) |-> Fold(t[k])]]

MarkNode(t) == [hl |-> TRUE, cur |-> FALSE, text |-> t]

\* element.textContent: the texts of the child nodes, concatenated.
RECURSIVE TextContent(_)
TextContent(nodes) ==
    IF nodes = <<>> THEN <<>> ELSE Head(nodes).text \o TextContent(Tail(nodes))

\* parent.normalize(): empty text nodes go, adjacent text nodes are merged.
RECURSIVE Normalize(_)
Normalize(nodes) ==
    IF nodes = <<>> THEN <<>>
    ELSE LET n == Head(nodes)
             rest == Normalize(Tail(nodes))
         IN IF n.hl THEN <<n>> \o rest
            ELSE IF n.text = <<>> THEN rest
            ELSE IF rest # <<>> /\ ~Head(rest).hl
                 THEN <<TextNode(n.text \o Head(rest).text)>> \o Tail(rest)
                 ELSE <<n>> \o rest

\* clearHighlights leaving every span where it is.
ClearCueKept(nodes) == nodes

\* The loop of clearHighlights over one cue: every .search-highlight span is
\* replaced by a text node of its text and the parent is normalized.
ClearCue(nodes) ==
    Normalize([k \in 1..Len(nodes) |-> TextNode(nodes[k].text)])

\* The fragment that highlightMatches builds for one cue, from position
\* lastIndex on: text before each match, the match as a span, remaining text.
RECURSIVE Fragment(_, _, _, _)
Fragment(text, starts, len, lastIndex) ==
    IF starts = <<>>
    THEN IF lastIndex <= Len(text)
         THEN <<TextNode(SubSeq(text, lastIndex, Len(text)))>>
         ELSE <<>>
    ELSE LET index == Head(starts)
             before == IF index > lastIndex
                       THEN <<TextNode(SubSeq(text, lastIndex, index - 1))>>
                       ELSE <<>>
         IN before \o <<MarkNode(SubSeq(text, index, index + len - 1))>>
                   \o Fragment(text, Tail(starts), len, index + len)

\* The child nodes of a cue after highlightMatches has visited it.
HighlightCue(nodes, pattern) ==
    LET originalText == TextContent(nodes)
        matches == MatchAll(pattern, originalText)
    IN IF Len(matches) > 0
       THEN Fragment(originalText, matches, Len(pattern), 1)
       ELSE nodes

\* The spans of one cue in the order they were pushed onto searchMatches.
RECURSIVE MarksOf(_, _, _)
MarksOf(cue, nodes, k) ==
    IF k > Len(nodes) THEN <<>>
    ELSE IF nodes[k].hl
         THEN <<[cue |-> cue, node |-> k]>> \o MarksOf(cue, nodes, k + 1)
         ELSE MarksOf(cue, nodes, k + 1)

\* speakerTextElements.forEach: searchMatches after the cues i..NumCues have
\* been visited in document order.
RECURSIVE CollectMatches(_, _)
CollectMatches(nodesOf, i) ==
    IF i > NumCues THEN <<>>
    ELSE MarksOf(i, nodesOf[i], 1) \o CollectMatches(nodesOf, i + 1)

\* The classList changes of updateCurrentMatch: 'current' on the span at
\* index, off every other span of matches.
MarkCurrent(nodesOf, matches, index) ==
    [i \in Cues |->
        [k \in 1..Len(nodesOf[i]) |->
            IF \E m \in 1..Len(matches) : matches[m] = [cue |-> i, node |-> k]
            THEN [nodesOf[i][k] EXCEPT !.cur =
                     (matches[index + 1] = [cue |-> i, node |-> k])]
            ELSE nodesOf[i][k]]]

\* searchInfo.textContent.
InfoEmpty == [kind |-> "empty", position |-> 0, total |-> 0]

InfoNoMatches == [kind |-> "No matches", position |-> 0, total |-> 0]

InfoOf(position, total) == [kind |-> "of", position |-> position, total |-> total]

\* updateCurrentMatch, for a non-empty searchMatches: the classes, the
\* scrollIntoView of the current match and the status readout.
UpdateCurrentMatch(nodesOf, matches, index) ==
    /\ cueNodes' = MarkCurrent(nodesOf, matches, index)
    /\ scrollTop' = matches[index + 1].cue
    /\ scrollEventQueued' = (scrollEventQueued \/ scrollTop # matches[index + 1].cue)
    /\ searchInfo' = InfoOf(index + 1, Len(matches))

\* The cues of rebuilt replaced by new elements: their classes are lost.
RebuildElements(classes, rebuilt) == classes \ rebuilt

\* element.textContent = ''; element.appendChild(fragment) for the cues of
\* rebuilt: their children are replaced, the elements and their classList
\* (classes: the cues that carry 'active') stay.
RebuildChildren(classes, rebuilt) == classes

\* clearHighlights, as far as the document goes.
ClearHighlights == [i \in Cues |-> ClearCue(cueNodes[i])]

\* highlightMatches(searchTerm).
HighlightMatches(q) ==
    IF Len(q) < MinQueryLen
    THEN /\ cueNodes' = ClearHighlights
         /\ searchMatches' = <<>>
         /\ currentMatchIndex' = -1
         /\ searchInfo' = InfoEmpty
         /\ prevDisabled' = TRUE
         /\ nextDisabled' = TRUE
         /\ ev' = "input"
         /\ UNCHANGED <<scrollTop, scrollEventQueued, activeClass>>
    ELSE IF RegExpThrows(EscapeQuery(q))
    THEN \* the exception leaves highlightMatches after clearHighlights
         /\ cueNodes' = ClearHighlights
         /\ searchMatches' = <<>>
         /\ currentMatchIndex' = -1
         /\ ev' = "input:SyntaxError"
         /\ UNCHANGED <<searchInfo, prevDisabled, nextDisabled, scrollTop,
                        scrollEventQueued, activeClass>>
    ELSE LET pattern == EscapeQuery(q)
             cleared == ClearHighlights
             marked == [i \in Cues |-> HighlightCue(cleared[i], pattern)]
             matches == CollectMatches(marked, 1)
         IN /\ searchMatches' = matches
            /\ activeClass' = RebuildChildren(activeClass,
                                  {i \in Cues : marked[i] # cleared[i]})
            /\ ev' = "input"
            /\ IF Len(matches) > 0
               THEN /\ currentMatchIndex' = 0
                    /\ UpdateCurrentMatch(marked, matches, 0)
                    /\ prevDisabled' = FALSE
                    /\ nextDisabled' = FALSE
               ELSE /\ currentMatchIndex' = -1
                    /\ cueNodes' = marked
                    /\ searchInfo' = InfoNoMatches
                    /\ prevDisabled' = TRUE
                    /\ nextDisabled' = TRUE
                    /\ UNCHANGED <<scrollTop, scrollEventQueued>>

\* What no search handler touches.
searchFrame == <<dataTime, autoScrollEnabled, currentActiveElement, userIsScrolling,
                 scrollTimeout, timers, paused, currentTime, timeupdateQueued>>

\* The 'input' listener of the search box: the query becomes q.
Input(q) ==
    /\ q # searchTerm
    /\ searchTerm' = q
    /\ HighlightMatches(q)
    /\ UNCHANGED searchFrame

\* Next without the wrap: it stays on the last match.
NextIndexNoWrap(index, length) == IF index + 1 < length THEN index + 1 ELSE index

\* (currentMatchIndex + 1) % searchMatches.length
NextIndex(index, length) == (index + 1) % length

\* (currentMatchIndex - 1 + searchMatches.length) % searchMatches.length
PrevIndex(index, length) == (index - 1 + length) % length

\* nextMatch: the next button, or Enter in the search box.
NextMatch ==
    /\ IF Len(searchMatches) > 0
       THEN /\ currentMatchIndex' = NextIndex(currentMatchIndex, Len(searchMatches))
            /\ UpdateCurrentMatch(cueNodes, searchMatches, currentMatchIndex')
       ELSE UNCHANGED <<currentMatchIndex, cueNodes, scrollTop, scrollEventQueued,
                        searchInfo>>
    /\ ev' = "next"
    /\ UNCHANGED <<searchTerm, searchMatches, prevDisabled, nextDisabled, activeClass>>
    /\ UNCHANGED searchFrame

\* prevMatch: the previous button, or Shift+Enter in the search box.
PrevMatch ==
    /\ IF Len(searchMatches) > 0
       THEN /\ currentMatchIndex' = PrevIndex(currentMatchIndex, Len(searchMatches))
            /\ UpdateCurrentMatch(cueNodes, searchMatches, currentMatchIndex')
       ELSE UNCHANGED <<currentMatchIndex, cueNodes, scrollTop, scrollEventQueued,
                        searchInfo>>
    /\ ev' = "prev"
    /\ UNCHANGED <<searchTerm, searchMatches, prevDisabled, nextDisabled, activeClass>>
    /\ UNCHANGED searchFrame

\* ------------------------------------------------------------------ strings

\* A string is the sequence of its characters.
Digits == {"0", "1", "2", "3", "4", "5", "6", "7", "8", "9"}

DigitValue(c) ==
    CASE c = "0" -> 0 [] c = "1" -> 1 [] c = "2" -> 2 [] c = "3" -> 3
      [] c = "4" -> 4 [] c = "5" -> 5 [] c = "6" -> 6 [] c = "7" -> 7
      [] c = "8" -> 8 [] c = "9" -> 9

\* re.match(r'^\d+$', s): one or more digits and nothing else.
IsDigits(s) == Len(s) > 0 /\ \A k \in 1..Len(s) : s[k] \in Digits

\* The number that a string of digits (or the empty string: 0) writes.
RECURSIVE DigitsValue(_)
DigitsValue(s) ==
    IF s = <<>> THEN 0
    ELSE 10 * DigitsValue(SubSeq(s, 1, Len(s) - 1)) + DigitValue(s[Len(s)])

\* str.strip(): the whitespace of the inputs is the blank.
RECURSIVE Strip(_)
Strip(s) ==
    IF s = <<>> THEN s
    ELSE IF Head(s) = " " THEN Strip(Tail(s))
    ELSE IF s[Len(s)] = " " THEN Strip(SubSeq(s, 1, Len(s) - 1))
    ELSE s

\* str.startswith(prefix)
StartsWith(s, prefix) ==
    Len(prefix) <= Len(s) /\ SubSeq(s, 1, Len(prefix)) = prefix

\* The first position from k on at which sub occurs in s, 0 if there is none.
RECURSIVE Find(_, _, _)
Find(s, sub, k) ==
    IF k + Len(sub) - 1 > Len(s) THEN 0
    ELSE IF SubSeq(s, k, k + Len(sub) - 1) = sub THEN k
    ELSE Find(s, sub, k + 1)

\* sub in s
Contains(s, sub) == Find(s, sub, 1) # 0

\* s.split(sep): the parts between all occurrences of sep.
RECURSIVE Split(_, _)
Split(s, sep) ==
    LET k == Find(s, sep, 1)
    IN IF k = 0 THEN <<s>>
       ELSE <<SubSeq(s, 1, k - 1)>> \o Split(SubSeq(s, k + Len(sep), Len(s)), sep)

\* s.split(sep, 1): split at the first occurrence of sep only.
SplitOnce(s, sep) ==
    LET k == Find(s, sep, 1)
    IN IF k = 0 THEN <<s>>
       ELSE <<SubSeq(s, 1, k - 1), SubSeq(s, k + Len(sep), Len(s))>>

\* text.replace(wrong, right): every occurrence, left to right, not
\* overlapping.
RECURSIVE Replace(_, _, _)
Replace(text, wrong, right) ==
    LET k == Find(text, wrong, 1)
    IN IF k = 0 THEN text
       ELSE SubSeq(text, 1, k - 1) \o right
                \o Replace(SubSeq(text, k + Len(wrong), Len(text)), wrong, right)

\* " ".join(parts)
RECURSIVE Join(_)
Join(parts) ==
    IF parts = <<>> THEN <<>>
    ELSE IF Len(parts) = 1 THEN parts[1]
    ELSE parts[1] \o <<" ">> \o Join(Tail(parts))

\* ------------------------------------------------------------------ numbers

\* A number of seconds: n / 10^k, with no trailing zero in the fraction.
RECURSIVE Number(_, _)
Number(n, k) ==
    IF k > 0 /\ n % 10 = 0 THEN Number(n \div 10, k - 1)
    ELSE [n |-> n, k |-> k]

RECURSIVE Pow10(_)
Pow10(k) == IF k = 0 THEN 1 ELSE 10 * Pow10(k - 1)

\* x <= y
NumberLeq(x, y) == x.n * Pow10(y.k) <= y.n * Pow10(x.k)

\* What a call gives: a value, or an exception of some class.
Returns(value) == [raised |-> "", value |-> value]

Raises(class) == [raised |-> class, value |-> Number(0, 0)]

\* int(token): blanks around it are dropped, then an optional sign and digits;
\* anything else raises ValueError.
int(token) ==
    LET t == Strip(token)
        signed == t # <<>> /\ Head(t) \in {"-", "+"}
        body == IF signed THEN Tail(t) ELSE t
    IN IF IsDigits(body)
       THEN Returns(Number(IF signed /\ Head(t) = "-"
                           THEN 0 - DigitsValue(body) ELSE DigitsValue(body), 0))
       ELSE Raises("ValueError")

\* float(token): blanks around it are dropped, then an optional sign and
\* digits with at most one point among them; anything else raises ValueError
\* (the inputs hold no exponent, "inf" or "nan").
float(token) ==
    LET t == Strip(token)
        signed == t # <<>> /\ Head(t) \in {"-", "+"}
        body == IF signed THEN Tail(t) ELSE t
        point == Find(body, <<".">>, 1)
        whole == IF point = 0 THEN body ELSE SubSeq(body, 1, point - 1)
        fraction == IF point = 0 THEN <<>> ELSE SubSeq(body, point + 1, Len(body))
        n == DigitsValue(whole \o fraction)
    IN IF IsDigits(whole \o fraction)
       THEN Returns(Number(IF signed /\ Head(t) = "-" THEN 0 - n ELSE n,
                           Len(fraction)))
       ELSE Raises("ValueError")

\* hours * 3600 + minutes * 60 + seconds
HoursMinutesSeconds(hours, minutes, seconds) ==
    Number((hours.n * 3600 + minutes.n * 60) * Pow10(seconds.k) + seconds.n,
           seconds.k)

\* ------------------------------------------------------------ parse_timestamp

\* parse_timestamp with two-part timestamps read as minutes and seconds.
parse_timestamp_lenient(timestamp) ==
    LET parts == Split(timestamp, <<":">>)
    IN IF Len(parts) = 1 THEN float(parts[1])
       ELSE IF Len(parts) = 2
            THEN IF int(parts[1]).raised # "" THEN int(parts[1])
                 ELSE IF float(parts[2]).raised # "" THEN float(parts[2])
                 ELSE Returns(HoursMinutesSeconds(Number(0, 0), int(parts[1]).value,
                                                  float(parts[2]).value))
       ELSE Raises("ValueError")

\* parse_timestamp(timestamp): what it returns or raises.
parse_timestamp(timestamp) ==
    LET parts == Split(timestamp, <<":">>)
    IN IF Len(parts) = 1 THEN float(parts[1])
       ELSE IF Len(parts) = 3
            THEN IF int(parts[1]).raised # "" THEN int(parts[1])
                 ELSE IF int(parts[2]).raised # "" THEN int(parts[2])
                 ELSE IF float(parts[3]).raised # "" THEN float(parts[3])
                 ELSE Returns(HoursMinutesSeconds(int(parts[1]).value,
                                                  int(parts[2]).value,
                                                  float(parts[3]).value))
       ELSE Raises("ValueError")

\* ---------------------------------------------------------------- fix_spelling

\* corrections, in the order they are applied.
corrections ==
    << [wrong |-> <<"M", "c", "C", "a", "u", "l", "e", "y">>,
        right |-> <<"M", "c", "C", "a", "l", "l", "i", "e">>],
       [wrong |-> <<"C", "a", "t", "h", "e", "r", "i", "n", "e">>,
        right |-> <<"K", "a", "t", "h", "a", "r", "i", "n", "e">>],
       [wrong |-> <<"C", "h", "i", "c", "a", "g", "o", " ", "c", "o", "a", "l">>,
        right |-> <<"C", "h", "i", "c", "a", "g", "o", " ", "c", "o", "l", "d">>],
       [wrong |-> <<"H", "I", "R", "O", "X">>,
        right |-> <<"H", "i", "g", "h", " ", "R", "o", "c", "k", "s">>] >>

\* for wrong, right in corrections[k..]: text = text.replace(wrong, right)
RECURSIVE fix_from(_, _)
fix_from(text, k) ==
    IF k > Len(corrections) THEN text
    ELSE fix_from(Replace(text, corrections[k].wrong, corrections[k].right), k + 1)

fix_spelling(text) == fix_from(text, 1)

\* -------------------------------------------------------------- parse_vtt_file

\* '-->'
Arrow == <<"-", "-", ">">>

WEBVTT == <<"W", "E", "B", "V", "T", "T">>

\* line = lines[i].strip(), for i < len(lines)
CurrentLine == Strip(lines[idx + 1])

\* Where the outer loop has a line to look at.
AtLine == stage = "seek" /\ idx < Len(lines)

blockFrame == <<lines, cues, warnings, start_time, speaker, text_lines>>

\* while i < len(lines): the loop ends and parse_vtt_file returns cues.
LoopExit ==
    /\ stage = "seek"
    /\ idx >= Len(lines)
    /\ stage' = "returned"
    /\ UNCHANGED <<idx, blockFrame>>
    /\ UNCHANGED <<groupVars, pageVars>>

\* Header lines and empty lines are skipped.
SkipLine ==
    /\ AtLine
    /\ CurrentLine = <<>> \/ StartsWith(CurrentLine, WEBVTT)
    /\ idx' = idx + 1
    /\ UNCHANGED <<stage, blockFrame>>
    /\ UNCHANGED <<groupVars, pageVars>>

\* A line that is just a number is skipped.
SkipNumber ==
    /\ AtLine
    /\ ~(CurrentLine = <<>> \/ StartsWith(CurrentLine, WEBVTT))
    /\ IsDigits(CurrentLine)
    /\ idx' = idx + 1
    /\ UNCHANGED <<stage, blockFrame>>
    /\ UNCHANGED <<groupVars, pageVars>>

\* The exception classes that the except clause of the timing line catches.
Caught == {"ValueError"}

\* A line with '-->': the text before the first '-->' is parsed.  A value
\* starts a block; a caught exception prints a warning (recorded with the
\* index of the line) and goes on with the next line; any other exception
\* leaves parse_vtt_file.
TimingLine ==
    /\ AtLine
    /\ ~(CurrentLine = <<>> \/ StartsWith(CurrentLine, WEBVTT))
    /\ ~IsDigits(CurrentLine)
    /\ Contains(CurrentLine, Arrow)
    /\ LET start_timestamp == Strip(Split(CurrentLine, Arrow)[1])
           result == parse_timestamp(start_timestamp)
       IN IF result.raised = ""
          THEN /\ start_time' = result.value
               /\ idx' = idx + 1
               /\ text_lines' = <<>>
               /\ speaker' = <<>>
               /\ stage' = "text"
               /\ UNCHANGED <<lines, cues, warnings>>
          ELSE IF result.raised \in Caught
          THEN /\ warnings' = Append(warnings, [line |-> idx,
                                                timestamp |-> start_timestamp])
               /\ idx' = idx + 1
               /\ UNCHANGED <<stage, lines, cues, start_time, speaker, text_lines>>
          ELSE /\ stage' = "raised"
               /\ UNCHANGED <<idx, blockFrame>>
    /\ UNCHANGED <<groupVars, pageVars>>

\* Any other line is passed over.
OtherLine ==
    /\ AtLine
    /\ ~(CurrentLine = <<>> \/ StartsWith(CurrentLine, WEBVTT))
    /\ ~IsDigits(CurrentLine)
    /\ ~Contains(CurrentLine, Arrow)
    /\ idx' = idx + 1
    /\ UNCHANGED <<stage, blockFrame>>
    /\ UNCHANGED <<groupVars, pageVars>>

\* Where the inner loop has a text line to read.
AtText == stage = "text" /\ idx < Len(lines) /\ Strip(lines[idx + 1]) # <<>>

\* One text line of the block: split at its first ':' into speaker and text
\* if it has one, kept whole otherwise; the text is spell-corrected.
TextLine ==
    /\ AtText
    /\ LET speaker_split == SplitOnce(CurrentLine, <<":">>)
       IN IF Len(speaker_split) = 2
          THEN /\ speaker' = Strip(speaker_split[1])
               /\ text_lines' = Append(text_lines,
                                       fix_spelling(Strip(speaker_split[2])))
          ELSE /\ text_lines' = Append(text_lines, fix_spelling(CurrentLine))
               /\ UNCHANGED speaker
    /\ idx' = idx + 1
    /\ UNCHANGED <<stage, lines, cues, warnings, start_time>>
    /\ UNCHANGED <<groupVars, pageVars>>

\* The block ends at an empty line or at the end of the file: its cue is
\* appended.
AppendCue ==
    /\ stage = "text"
    /\ ~AtText
    /\ cues' = Append(cues, [speaker |-> speaker, start_time |-> start_time,
                             text |-> Join(text_lines)])
    /\ stage' = "seek"
    /\ UNCHANGED <<idx, lines, warnings, start_time, speaker, text_lines>>
    /\ UNCHANGED <<groupVars, pageVars>>

\* -------------------------------------------------------------- generate_html

\* None, which is no speaker string.
None == <<"None">>

\* A speaker-section div with its speakername and timestamp spans, which
\* carry data-time (the [ mm:ss ] written from it by format_time is left
\* out), before its first paragraph.
OpenSection(secs, cue) ==
    Append(secs, [speaker |-> cue.speaker, anchor |-> cue.start_time,
                  members |-> <<>>])

\* The paragraph of a cue, a speakertext span with data-time and text, added
\* to the section that is open.
AddParagraph(secs, cue) ==
    [secs EXCEPT ![Len(secs)].members =
        Append(@, [start_time |-> cue.start_time, text |-> cue.text])]

\* A section is opened by the first cue only.
NewSpeakerOnlyFirst(cue, last) == last = None

\* do we have a new speaker?
NewSpeaker(cue, last) == cue.speaker # last

\* The body of the loop with the paragraph in an else branch: the cue that
\* opens a section gets no paragraph.
WriteCueElse(secs, last, cue) ==
    IF NewSpeaker(cue, last) THEN OpenSection(secs, cue) ELSE AddParagraph(secs, cue)

\* The body of the loop over cues: what is written for one cue.
WriteCue(secs, last, cue) ==
    AddParagraph(IF NewSpeaker(cue, last) THEN OpenSection(secs, cue) ELSE secs, cue)

\* The sections written for the cues k.. of cuelist, after secs with
\* last_speaker last.
RECURSIVE GroupFrom(_, _, _, _)
GroupFrom(cuelist, k, last, secs) ==
    IF k > Len(cuelist) THEN secs
    ELSE GroupFrom(cuelist, k + 1, cuelist[k].speaker,
                   WriteCue(secs, last, cuelist[k]))

\* The sections that generate_html writes for a cue list.
Group(cuelist) == GroupFrom(cuelist, 1, None, <<>>)

\* main, once parse_vtt_file has returned: without cues it exits, with cues it
\* calls generate_html.
Main ==
    /\ stage = "returned"
    /\ IF cues = <<>>
       THEN /\ stage' = "exit"
            /\ UNCHANGED groupVars
       ELSE /\ stage' = "group"
            /\ last_speaker' = None
            /\ sections' = <<>>
            /\ cueNo' = 0
    /\ UNCHANGED <<idx, blockFrame>>
    /\ UNCHANGED pageVars

\* for speaker, start_time, text in cues: one pass of the loop.
GroupStep ==
    /\ stage = "group"
    /\ cueNo < Len(cues)
    /\ sections' = WriteCue(sections, last_speaker, cues[cueNo + 1])
    /\ last_speaker' = cues[cueNo + 1].speaker
    /\ cueNo' = cueNo + 1
    /\ UNCHANGED parseVars
    /\ UNCHANGED pageVars

\* The loop is over; the last section is closed and the page is written.
GroupExit ==
    /\ stage = "group"
    /\ cueNo >= Len(cues)
    /\ stage' = "done"
    /\ UNCHANGED <<idx, blockFrame>>
    /\ UNCHANGED <<groupVars, pageVars>>

\* ------------------------------------------------------------ specification

\* The page as loaded: the script's initial values, the video paused at 0,
\* both search buttons disabled, every cue one text node.
PageInit(documents) ==
    /\ dataTime \in documents
    /\ autoScrollEnabled = TRUE
    /\ currentActiveElement = NoElement
    /\ userIsScrolling = FALSE
    /\ scrollTimeout = 0
    /\ timers = <<>>
    /\ activeClass = {}
    /\ scrollTop = 0
    /\ scrollEventQueued = FALSE
    /\ paused = TRUE
    /\ currentTime = 0
    /\ timeupdateQueued = FALSE
    /\ sinceManualScroll = DebounceDelay
    /\ manualScrollSinceSeek = TRUE
    /\ pausedByEvent = FALSE
    /\ searchTerm = <<>>
    /\ cueNodes = [i \in Cues |-> Normalize(<<TextNode(CueText(i))>>)]
    /\ searchMatches = <<>>
    /\ currentMatchIndex = -1
    /\ searchInfo = InfoEmpty
    /\ prevDisabled = TRUE
    /\ nextDisabled = TRUE
    /\ ev = "load"

\* The generator before its first step, with cue list cuelist and at stage s.
GeneratorInit(cuelist, s) ==
    /\ idx = 0
    /\ cues = cuelist
    /\ warnings = <<>>
    /\ start_time = Number(0, 0)
    /\ speaker = <<>>
    /\ text_lines = <<>>
    /\ last_speaker = None
    /\ sections = <<>>
    /\ cueNo = 0
    /\ stage = s

\* The viewing session: the page as loaded, the generator long finished.
InitOn(documents) ==
    /\ PageInit(documents)
    /\ lines = <<>>
    /\ GeneratorInit(<<>>, "done")

Init == InitOn({Document})

\* Every query of at most MaxQueryLen characters.
RECURSIVE QueriesOfLen(_)
QueriesOfLen(n) ==
    IF n = 0 THEN {<<>>}
    ELSE {Append(q, c) : q \in QueriesOfLen(n - 1), c \in Alphabet}

AllQueries == UNION {QueriesOfLen(n) : n \in 0..MaxQueryLen}

\* The queries typed in the full viewing session: none, a plain one, one with
\* an opening parenthesis.
SessionQueries == {<<>>, <<"a", "b">>, <<"(", "a">>}

\* The generator takes no part in the viewing session.
Unobserved == UNCHANGED <<observerVars, parseVars, groupVars>>

\* The full viewing session: the events of both engines in any order.
Next ==
    \/ ToggleAutoScroll /\ Unobserved
    \/ \E p \in 0..NumCues : ManualScroll(p) /\ Unobserved
    \/ ProgrammaticScrollEvent /\ Unobserved
    \/ \E id \in PendingIds : ScrollTimeoutFires(id) /\ Unobserved
    \/ Tick /\ Unobserved
    \/ \E t \in Times : TimeUpdate(t) /\ Unobserved
    \/ Pause /\ Unobserved
    \/ Play /\ Unobserved
    \/ \E t \in Times : Seek(t) /\ Unobserved
    \/ \E i \in Cues, played \in BOOLEAN : Click(i, played) /\ Unobserved
    \/ \E q \in SessionQueries : Input(q) /\ Unobserved
    \/ NextMatch /\ Unobserved
    \/ PrevMatch /\ Unobserved

Spec == Init /\ [][Next]_vars

\* The full viewing session in which time passes and a timer that is due
\* again and again fires.
FairSpec ==
    /\ Spec
    /\ WF_vars(Tick /\ Unobserved)
    /\ SF_vars(\E id \in PendingIds : ScrollTimeoutFires(id) /\ Unobserved)

\* The observer's record of the step just taken.
Observe ==
    /\ sinceManualScroll' =
          IF ev' = "manualscroll" THEN 0
          ELSE IF ev' = "tick" /\ sinceManualScroll < DebounceDelay
               THEN sinceManualScroll + 1
               ELSE sinceManualScroll
    /\ manualScrollSinceSeek' =
          IF ev' = "manualscroll" THEN TRUE
          ELSE IF ev' \in {"seeking", "click"} THEN FALSE
               ELSE manualScrollSinceSeek
    /\ pausedByEvent' =
          IF ev' = "pause" THEN TRUE
          ELSE IF ~paused' THEN FALSE
               ELSE pausedByEvent
    /\ UNCHANGED <<parseVars, groupVars>>

\* The synchronization engine alone, observed.
SyncNext ==
    \/ ToggleAutoScroll /\ Observe
    \/ \E p \in 0..NumCues : ManualScroll(p) /\ Observe
    \/ ProgrammaticScrollEvent /\ Observe
    \/ \E id \in PendingIds : ScrollTimeoutFires(id) /\ Observe
    \/ Tick /\ Observe
    \/ \E t \in Times : TimeUpdate(t) /\ Observe
    \/ Pause /\ Observe
    \/ Play /\ Observe
    \/ \E t \in Times : Seek(t) /\ Observe
    \/ \E i \in Cues, played \in BOOLEAN : Click(i, played) /\ Observe

SyncSpec == Init /\ [][SyncNext]_vars

\* The synchronization engine alone in which time passes and a timer that is
\* due fires.
FairSyncSpec ==
    /\ SyncSpec
    /\ WF_vars(Tick /\ Observe)
    /\ WF_vars(\E id \in PendingIds : ScrollTimeoutFires(id) /\ Observe)

\* The search engine alone, over every query.
SearchNext ==
    \/ \E q \in AllQueries : Input(q) /\ Unobserved
    \/ NextMatch /\ Unobserved
    \/ PrevMatch /\ Unobserved

SearchSpec == Init /\ [][SearchNext]_vars

\* Playback alone (time updates, play, pause, seek, cue click), observed,
\* over every document.
PlaybackInit == InitOn(AllDocuments)

PlaybackNext ==
    \/ \E t \in Times : TimeUpdate(t) /\ Observe
    \/ Pause /\ Observe
    \/ Play /\ Observe
    \/ \E t \in Times : Seek(t) /\ Observe
    \/ \E i \in Cues, played \in BOOLEAN : Click(i, played) /\ Observe

PlaybackSpec == PlaybackInit /\ [][PlaybackNext]_vars

\* The lines that input files are made of: empty, a cue number, two timing
\* lines with bare seconds, a timing line whose timestamp has two parts, a
\* text line with a speaker, one that begins with a colon, one without colon.
SampleLines ==
    { <<>>,
      <<"7">>,
      <<"1", " ", "-", "-", ">", " ", "2">>,
      <<"2", " ", "-", "-", ">", " ", "3">>,
      <<"1", ":", "2", " ", "-", "-", ">", " ", "3">>,
      <<"A", ":", " ", "h">>,
      <<":", "h">>,
      <<"h">> }

RECURSIVE FilesOfLen(_)
FilesOfLen(n) ==
    IF n = 0 THEN {<<>>}
    ELSE {Append(f, l) : f \in FilesOfLen(n - 1), l \in SampleLines}

\* Every file of at most n sample lines.
FilesUpTo(n) == UNION {FilesOfLen(m) : m \in 0..n}

\* The generator run on a file: parse_vtt_file, then main and the grouping
\* loop of generate_html.
GenerateNext ==
    \/ LoopExit
    \/ SkipLine
    \/ SkipNumber
    \/ TimingLine
    \/ OtherLine
    \/ TextLine
    \/ AppendCue
    \/ Main
    \/ GroupStep
    \/ GroupExit

ParseInit ==
    /\ PageInit({Document})
    /\ lines \in FilesUpTo(MaxLines)
    /\ GeneratorInit(<<>>, "seek")

ParseSpec == ParseInit /\ [][GenerateNext]_vars

\* The characters of timestamps: two digits, the separator, the decimal
\* point, a letter.
StampAlphabet == {"1", "2", ":", ".", "x"}

RECURSIVE StampsOfLen(_)
StampsOfLen(n) ==
    IF n = 0 THEN {<<>>}
    ELSE {Append(t, c) : t \in StampsOfLen(n - 1), c \in StampAlphabet}

\* Every timestamp of at most n characters.
StampsUpTo(n) == UNION {StampsOfLen(m) : m \in 0..n}

\* A file of one block whose timing line starts with timestamp t: header,
\* empty line, cue number, timing line, one text line.
StampFile(t) ==
    << WEBVTT, <<>>, <<"7">>, t \o <<" ">> \o Arrow \o <<" ", "9">>,
       <<"A", ":", " ", "h">> >>

TimestampInit ==
    /\ PageInit({Document})
    /\ lines \in {StampFile(t) : t \in StampsUpTo(MaxStampLen)}
    /\ GeneratorInit(<<>>, "seek")

\* The generator run on one block, over every timestamp.
TimestampSpec == TimestampInit /\ [][GenerateNext]_vars

\* The cues that the lists handed to the grouping loop are made of: with no
\* speaker and with two speakers, at two start times.
SampleCues ==
    {[speaker |-> sp, start_time |-> Number(t, 0), text |-> <<"h">>] :
        sp \in {<<>>, <<"A">>, <<"B">>}, t \in 1..2}

RECURSIVE CueListsOfLen(_)
CueListsOfLen(n) ==
    IF n = 0 THEN {<<>>}
    ELSE {Append(l, c) : l \in CueListsOfLen(n - 1), c \in SampleCues}

\* Every list of at most n sample cues.
CueListsUpTo(n) == UNION {CueListsOfLen(m) : m \in 0..n}

GroupInit ==
    /\ PageInit({Document})
    /\ lines = <<>>
    /\ cues \in CueListsUpTo(MaxRunCues)
    /\ GeneratorInit(cues, "returned")

GroupNext ==
    \/ Main
    \/ GroupStep
    \/ GroupExit

\* main from the return of parse_vtt_file on, over every cue list.
GroupSpec == GroupInit /\ [][GroupNext]_vars

\* The text lines of the block whose spelling is corrected: the two halves of
\* a find string with a blank in it, that find string whole, another find
\* string behind a speaker, and a line with none.
SpellingLines ==
    { <<"C", "h", "i", "c", "a", "g", "o">>,
      <<"c", "o", "a", "l">>,
      <<"C", "h", "i", "c", "a", "g", "o", " ", "c", "o", "a", "l">>,
      <<"A", ":", " ", "H", "I", "R", "O", "X">>,
      <<"h">> }

RECURSIVE TextsOfLen(_)
TextsOfLen(n) ==
    IF n = 0 THEN {<<>>}
    ELSE {Append(t, l) : t \in TextsOfLen(n - 1), l \in SpellingLines}

\* Every run of at most n such text lines.
TextsUpTo(n) == UNION {TextsOfLen(m) : m \in 0..n}

SpellingInit ==
    /\ PageInit({Document})
    /\ lines \in {<< <<"1", " ">> \o Arrow \o <<" ", "2">> >> \o t :
                     t \in TextsUpTo(MaxTextLines)}
    /\ GeneratorInit(<<>>, "seek")

SpellingNext ==
    \/ TimingLine
    \/ TextLine
    \/ AppendCue
    \/ LoopExit

\* parse_vtt_file on one block, over its text lines.
SpellingSpec == SpellingInit /\ [][SpellingNext]_vars

\* ------------------------------------------------------------------ claims

\* A time update that the handler acts on: it ran last, with auto-scroll on
\* and no manual scrolling (the handler changes neither flag).
TimeUpdateProcessed == ev = "timeupdate" /\ autoScrollEnabled /\ ~userIsScrolling

\* C1: after a processed time update at playback time t with some cue
\* started at or before t, the active cue is the last cue in document order
\* whose start time is at most t.
C1_ActiveCueIsLastStarted ==
    (TimeUpdateProcessed /\ \E i \in Cues : dataTime[i] <= currentTime)
    => /\ currentActiveElement \in Cues
       /\ dataTime[currentActiveElement] <= currentTime
       /\ \A j \in Cues : j > currentActiveElement => dataTime[j] > currentTime

\* C1 witness: cues 1 and 2 share start time 1, cue 3 starts at 3, and a time
\* update at 2 has made cue 2 the active cue.
C1_Witness ==
    /\ TimeUpdateProcessed
    /\ dataTime[1] = 1 /\ dataTime[2] = 1 /\ dataTime[3] = 3
    /\ currentTime = 2
    /\ currentActiveElement = 2

\* C2: after a processed time update at a time before every cue's start
\* time no cue is active: the pointer is unset and no cue has the emphasis.
C2_NoCueBeforeFirstStart ==
    (TimeUpdateProcessed /\ \A i \in Cues : currentTime < dataTime[i])
    => (currentActiveElement = NoElement /\ activeClass = {})

\* C3: at most one cue carries the active emphasis, and the cues carrying it
\* are exactly the cue the pointer holds.
C3_EmphasisIsThePointer ==
    /\ Cardinality(activeClass) <= 1
    /\ activeClass = IF currentActiveElement = NoElement THEN {}
                     ELSE {currentActiveElement}

\* C3 witness: a time update has moved the emphasis to the last cue while
\* search highlights are present in the document.
C3_Witness ==
    /\ ev = "timeupdate"
    /\ currentActiveElement = NumCues
    /\ activeClass = {NumCues}
    /\ Len(searchMatches) > 0

\* C4: from a pause event until playback resumes no cue is active.
C4_NoActiveCueWhileStopped ==
    pausedByEvent => (currentActiveElement = NoElement /\ activeClass = {})

\* C5: a time update handled with auto-scroll off or during manual
\* scrolling changes neither the pointer, the emphasis, the two flags, the
\* debounce timer nor the scroll position.
C5_SuppressedTimeUpdateIsNoOp ==
    [][(ev' = "timeupdate" /\ (~autoScrollEnabled \/ userIsScrolling))
       => UNCHANGED <<currentActiveElement, activeClass, autoScrollEnabled,
                      userIsScrolling, scrollTimeout, timers, scrollTop,
                      scrollEventQueued>>]_vars

\* C5 witness: a time update was handled during manual scrolling at a time
\* whose cue is not the active one.
C5_Witness ==
    /\ ev = "timeupdate"
    /\ autoScrollEnabled
    /\ userIsScrolling
    /\ \E i \in Cues : dataTime[i] <= currentTime
    /\ currentActiveElement # NumCues
    /\ dataTime[NumCues] <= currentTime

\* C6: the debounce timer clears userIsScrolling no sooner than DebounceDelay
\* seconds after the most recent manual scroll, and at most one debounce
\* timer is pending.
C6_QuietPeriodBeforeClear ==
    [][/\ (ev' = "timeout" /\ userIsScrolling /\ ~userIsScrolling')
          => sinceManualScroll >= DebounceDelay
       /\ Cardinality(DOMAIN timers') <= 1]_vars

\* C7: after a seek userIsScrolling is false, and it stays false until the
\* next manual scroll.
C7_SeekClearsUntilManualScroll ==
    ~manualScrollSinceSeek => ~userIsScrolling

\* The query matches text at position i as a literal, case-insensitive
\* substring.
LiteralAt(query, text, i) ==
    /\ i + Len(query) - 1 <= Len(text)
    /\ \A k \in 1..Len(query) : Fold(query[k]) = Fold(text[i + k - 1])

\* The start positions of the non-overlapping literal occurrences of the
\* query in text, left to right from position i.
RECURSIVE LiteralOccurrencesFrom(_, _, _)
LiteralOccurrencesFrom(query, text, i) ==
    IF i > Len(text) THEN <<>>
    ELSE IF LiteralAt(query, text, i)
         THEN <<i>> \o LiteralOccurrencesFrom(query, text, i + Len(query))
         ELSE LiteralOccurrencesFrom(query, text, i + 1)

LiteralOccurrences(query, text) == LiteralOccurrencesFrom(query, text, 1)

\* The position in the cue's text at which child node k starts.
RECURSIVE OffsetOf(_, _)
OffsetOf(nodes, k) ==
    IF k = 1 THEN 1 ELSE OffsetOf(nodes, k - 1) + Len(nodes[k - 1].text)

\* The start positions of the highlight spans of a cue, left to right.
RECURSIVE SpanStartsFrom(_, _)
SpanStartsFrom(nodes, k) ==
    IF k > Len(nodes) THEN <<>>
    ELSE IF nodes[k].hl
         THEN <<OffsetOf(nodes, k)>> \o SpanStartsFrom(nodes, k + 1)
         ELSE SpanStartsFrom(nodes, k + 1)

\* A query change with a query long enough to be searched was handled last.
QueryChanged ==
    ev \in {"input", "input:SyntaxError"} /\ Len(searchTerm) >= MinQueryLen

\* C8: after a query change with a query of at least MinQueryLen characters
\* the handler has completed, and the spans of every cue are exactly the
\* non-overlapping case-insensitive occurrences of the query as a literal
\* substring of the cue's text.
C8_QueryMatchedLiterally ==
    QueryChanged
    => /\ ev = "input"
       /\ \A i \in Cues :
            /\ SpanStartsFrom(cueNodes[i], 1) = LiteralOccurrences(searchTerm, CueText(i))
            /\ \A k \in 1..Len(cueNodes[i]) :
                 cueNodes[i][k].hl => Len(cueNodes[i][k].text) = Len(searchTerm)

\* The places <<cue, position>> of the matches of the cues i..NumCues, cue by
\* cue and left to right within a cue.
RECURSIVE LiteralPlaces(_, _)
LiteralPlaces(query, i) ==
    IF i > NumCues THEN <<>>
    ELSE LET starts == LiteralOccurrences(query, CueText(i))
         IN [k \in 1..Len(starts) |-> <<i, starts[k]>>] \o LiteralPlaces(query, i + 1)

\* The places of the spans of the Match Set, in its order.
MatchSetPlaces ==
    [k \in 1..Len(searchMatches) |->
        <<searchMatches[k].cue,
          OffsetOf(cueNodes[searchMatches[k].cue], searchMatches[k].node)>>]

\* C9: after a query change with a query of at least MinQueryLen characters
\* the Match Set holds every match of every cue exactly once, in document
\* order: by cue, and left to right within a cue.
C9_MatchSetInDocumentOrder ==
    QueryChanged => MatchSetPlaces = LiteralPlaces(searchTerm, 1)

\* The span at index k of the Match Set carries the 'current' class.
IsCurrentIn(nodesOf, matches, k) ==
    nodesOf[matches[k + 1].cue][matches[k + 1].node].cur

\* C10: after a query change with a non-empty Match Set the first match is
\* current; next moves the current match one forward and from the last to
\* the first, previous one back and from the first to the last; with an empty
\* Match Set next and previous change nothing.
C10_CyclicNavigation ==
    [][LET n == Len(searchMatches) IN
       /\ (ev' = "input" /\ Len(searchMatches') > 0)
          => (currentMatchIndex' = 0 /\ IsCurrentIn(cueNodes', searchMatches', 0))
       /\ (ev' = "next" /\ n > 0)
          => /\ currentMatchIndex' = IF currentMatchIndex = n - 1 THEN 0
                                     ELSE currentMatchIndex + 1
             /\ searchMatches' = searchMatches
             /\ IsCurrentIn(cueNodes', searchMatches', currentMatchIndex')
       /\ (ev' = "prev" /\ n > 0)
          => /\ currentMatchIndex' = IF currentMatchIndex = 0 THEN n - 1
                                     ELSE currentMatchIndex - 1
             /\ searchMatches' = searchMatches
             /\ IsCurrentIn(cueNodes', searchMatches', currentMatchIndex')
       /\ (ev' \in {"next", "prev"} /\ n = 0)
          => UNCHANGED <<searchVars, scrollTop, scrollEventQueued>>]_vars

\* C10 witness: next has wrapped from the last match of three or more to the
\* first.
C10_Witness ==
    /\ ev = "next"
    /\ searchTerm = <<"a", "b">>
    /\ Len(searchMatches) >= 3
    /\ currentMatchIndex = 0
    /\ IsCurrentIn(cueNodes, searchMatches, currentMatchIndex)

\* A search event was handled last: a query change (ended or thrown out of),
\* next or previous.
SearchEventHandled == ev \in {"input", "input:SyntaxError", "next", "prev"}

\* C11: after every query change, next and previous the status readout agrees
\* with the search state: it is empty exactly when the query has fewer than
\* MinQueryLen characters (and then there is no match and no current match),
\* it is "No matches" exactly when the query is long enough and the Match Set
\* is empty, and otherwise it is "<position> of <total>" with the size of the
\* Match Set as total and the 1-based index of the current match as position.
C11_StatusReadoutAgrees ==
    SearchEventHandled =>
        /\ (searchInfo = InfoEmpty) <=> (Len(searchTerm) < MinQueryLen)
        /\ (Len(searchTerm) < MinQueryLen) =>
               (searchMatches = <<>> /\ currentMatchIndex = -1)
        /\ (searchInfo = InfoNoMatches) <=>
               (Len(searchTerm) >= MinQueryLen /\ searchMatches = <<>>)
        /\ (Len(searchTerm) >= MinQueryLen /\ searchMatches # <<>>) =>
               searchInfo = InfoOf(currentMatchIndex + 1, Len(searchMatches))

\* The cues as generated: one text node each, no span.
PristineNodes == [i \in Cues |-> <<TextNode(CueText(i))>>]

\* The search state that query q gives on the pristine cues: the child nodes,
\* the Match Set and the index of the current match.
SearchStateOf(q) ==
    IF Len(q) < MinQueryLen \/ RegExpThrows(EscapeQuery(q))
    THEN [nodes |-> PristineNodes, matches |-> <<>>, index |-> -1]
    ELSE LET marked == [i \in Cues |-> HighlightCue(PristineNodes[i], EscapeQuery(q))]
             matches == CollectMatches(marked, 1)
         IN IF Len(matches) > 0
            THEN [nodes |-> MarkCurrent(marked, matches, 0), matches |-> matches,
                  index |-> 0]
            ELSE [nodes |-> marked, matches |-> matches, index |-> -1]

\* C12: after a query change the Match Set, the current match and the spans
\* in the cues are those that the new query gives on the cue texts alone,
\* whatever the query, the Match Set and the position were before: no span of
\* an earlier query is left, and the first match is current.
C12_RebuiltFromScratch ==
    ev \in {"input", "input:SyntaxError"} =>
        /\ searchMatches = SearchStateOf(searchTerm).matches
        /\ currentMatchIndex = SearchStateOf(searchTerm).index
        /\ cueNodes = SearchStateOf(searchTerm).nodes

\* A query change has emptied a Match Set that an earlier query had filled:
\* the readout still counts the earlier matches, and no span is left.
C12_Witness ==
    /\ ev = "input:SyntaxError"
    /\ searchInfo.kind = "of"
    /\ searchInfo.total >= 2
    /\ searchMatches = <<>>
    /\ cueNodes = PristineNodes

\* The events of the synchronization engine and of playback.
SyncEvents == {"toggle", "manualscroll", "scrollevent", "timeout", "tick",
               "timeupdate", "pause", "play", "seeking", "click"}

\* The events of the search engine.
SearchEvents == {"input", "input:SyntaxError", "next", "prev"}

C20_OnlyManualScrollSetsFlag ==
    [][(~userIsScrolling /\ userIsScrolling') =>
           (ev' = "manualscroll" /\ autoScrollEnabled)]_vars

\* Line j (from 0) belongs to a block whose timing line was found malformed:
\* a warning was printed for an earlier line, and no line from there to j is
\* empty.
InMalformedBlock(j) ==
    \E w \in 1..Len(warnings) :
        /\ warnings[w].line < j
        /\ \A m \in warnings[w].line..j : Strip(lines[m + 1]) # <<>>

\* C14: a block whose left timestamp is malformed contributes nothing: after
\* the warning its timing line and all text lines up to the next empty line
\* are skipped, whatever they contain, so no block (and no cue) is started
\* from a line of it.
C14_MalformedBlockSkipped ==
    [][(stage = "seek" /\ stage' = "text") => ~InMalformedBlock(idx)]_vars

\* The text line just read, before and after its first ':'.
SpeakerSplit == SplitOnce(CurrentLine, <<":">>)

\* The text line just read names a speaker: its first ':' has text on both
\* sides.
NamesSpeaker ==
    /\ Len(SpeakerSplit) = 2
    /\ Strip(SpeakerSplit[1]) # <<>>
    /\ Strip(SpeakerSplit[2]) # <<>>

\* C15: reading a text line updates the speaker only when the split at the
\* first ':' gives two non-empty parts (the speaker is then the left part and
\* the text the right part); otherwise the whole line is kept as text and the
\* speaker stays as it was.
C15_SpeakerOnlyFromTwoParts ==
    [][(stage = "text" /\ stage' = "text") =>
           IF NamesSpeaker
           THEN /\ speaker' = Strip(SpeakerSplit[1])
                /\ text_lines' = Append(text_lines,
                                        fix_spelling(Strip(SpeakerSplit[2])))
           ELSE /\ speaker' = speaker
                /\ text_lines' = Append(text_lines, fix_spelling(CurrentLine))]_vars

\* C16: the cue list that parse_vtt_file returns is non-decreasing in
\* start_time.
C16_CuesInTimeOrder ==
    stage = "returned" =>
        \A k \in 1..(Len(cues) - 1) :
            NumberLeq(cues[k].start_time, cues[k + 1].start_time)

\* The timing line of a one-block file (its fourth line) has been handled.
TimingLineHandled == Len(lines) = 5 /\ idx >= 4

\* The timestamp of that timing line and its tokens.
StampRead == Strip(Split(Strip(lines[4]), Arrow)[1])

StampTokens == Split(StampRead, <<":">>)

\* One numeric token, or three of which the first two are whole numbers.
StampWellFormed ==
    \/ /\ Len(StampTokens) = 1
       /\ float(StampTokens[1]).raised = ""
    \/ /\ Len(StampTokens) = 3
       /\ int(StampTokens[1]).raised = ""
       /\ int(StampTokens[2]).raised = ""
       /\ float(StampTokens[3]).raised = ""

\* The seconds that a well-formed timestamp stands for.
StampSeconds ==
    IF Len(StampTokens) = 1 THEN float(StampTokens[1]).value
    ELSE HoursMinutesSeconds(int(StampTokens[1]).value, int(StampTokens[2]).value,
                             float(StampTokens[3]).value)

\* C19: the timestamp converter decides by the number of ':'-separated
\* tokens: one token is read as seconds, three tokens as hours * 3600 +
\* minutes * 60 + seconds, and any other count, like any token that is not a
\* number, is the recoverable error that the extractor catches: a warning is
\* printed, the block gives no cue, and the run goes on to its end.
C19_ConvertsByTokenCount ==
    /\ stage # "raised"
    /\ TimingLineHandled =>
           IF StampWellFormed
           THEN /\ warnings = <<>>
                /\ start_time = StampSeconds
                /\ stage # "text" =>
                       (Len(cues) = 1 /\ cues[1].start_time = StampSeconds)
           ELSE /\ warnings = <<[line |-> 3, timestamp |-> StampRead]>>
                /\ cues = <<>>
                /\ stage \in {"seek", "returned", "exit"}

\* The run has ended after the two-token timestamp "1:2" was warned about.
C19_Witness ==
    /\ stage = "exit"
    /\ TimingLineHandled
    /\ StampRead = <<"1", ":", "2">>
    /\ Len(warnings) = 1

\* The cues of one section, read back from the page: the speaker of the
\* section with the data-time and text of each paragraph.
CuesOfSection(section) ==
    [k \in 1..Len(section.members) |->
        [speaker |-> section.speaker,
         start_time |-> section.members[k].start_time,
         text |-> section.members[k].text]]

\* The cues of the sections, in page order.
RECURSIVE Flatten(_)
Flatten(secs) ==
    IF secs = <<>> THEN <<>>
    ELSE CuesOfSection(Head(secs)) \o Flatten(Tail(secs))

\* C17: the sections are the maximal runs of consecutive cues with the same
\* speaker: read back in order they give the cues handled so far, no section
\* is empty, neighbouring sections differ in speaker (the empty string being
\* a speaker like any other), and each section carries the start_time of its
\* first cue.
C17_SectionsAreMaximalRuns ==
    stage \in {"group", "done"} =>
        /\ Flatten(sections) = SubSeq(cues, 1, cueNo)
        /\ \A k \in 1..Len(sections) :
               /\ sections[k].members # <<>>
               /\ sections[k].anchor = sections[k].members[1].start_time
        /\ \A k \in 1..(Len(sections) - 1) :
               sections[k].speaker # sections[k + 1].speaker

\* Speakers A, B, A have given three sections.
C17_Witness ==
    /\ stage = "done"
    /\ Len(cues) = 3
    /\ cues[1].speaker = <<"A">>
    /\ cues[2].speaker = <<"B">>
    /\ cues[3].speaker = <<"A">>
    /\ Len(sections) = 3

\* C18: grouping is idempotent: the cues read back from the finished page,
\* grouped again, give the same sections.
C18_RegroupingIsIdempotent ==
    stage = "done" => Group(Flatten(sections)) = sections

\* A page of two sections, the first a run of two cues of the speaker with
\* the empty name.
C18_Witness ==
    /\ stage = "done"
    /\ Len(sections) = 2
    /\ sections[1].speaker = <<>>
    /\ Len(sections[1].members) = 2

\* A text line with its speaker prefix removed.
WithoutSpeaker(line) ==
    IF Len(SplitOnce(Strip(line), <<":">>)) = 2
    THEN Strip(SplitOnce(Strip(line), <<":">>)[2])
    ELSE Strip(line)

\* The text lines of a one-block file, speaker prefixes removed.
BlockTextLines == [k \in 1..(Len(lines) - 1) |-> WithoutSpeaker(lines[k + 1])]

\* C21: the text of every emitted cue is fully corrected: it is the
\* correction pass applied to the single-space join of the cue's text lines
\* (speaker prefixes removed), and so holds no find string of any rule, also
\* none that straddles two text lines.
C21_CueTextFullyCorrected ==
    stage = "returned" =>
        \A c \in 1..Len(cues) :
            /\ cues[c].text = fix_spelling(Join(BlockTextLines))
            /\ \A r \in 1..Len(corrections) :
                   ~Contains(cues[c].text, corrections[r].wrong)

\* The places of the highlight spans that carry 'current'.
CurrentPlaces ==
    UNION {{[cue |-> i, node |-> k] :
               k \in {n \in 1..Len(cueNodes[i]) :
                          cueNodes[i][n].hl /\ cueNodes[i][n].cur}} : i \in Cues}

\* C22: the index of the current match is consistent with the Match Set: it
\* is -1 exactly when the Match Set is empty; otherwise it lies within the
\* Match Set and exactly one highlight span carries 'current', the one at
\* that index; the previous and next buttons are enabled exactly when the
\* Match Set is not empty.
C22_IndexAndButtonsConsistent ==
    /\ (currentMatchIndex = -1) <=> (searchMatches = <<>>)
    /\ searchMatches # <<>> =>
           /\ currentMatchIndex \in 0..(Len(searchMatches) - 1)
           /\ CurrentPlaces = {searchMatches[currentMatchIndex + 1]}
    /\ prevDisabled <=> (searchMatches = <<>>)
    /\ nextDisabled <=> (searchMatches = <<>>)

\* C23: search highlighting never alters cue text: after any sequence of
\* query changes and steps to the next or previous match, the pieces of every
\* cue, highlighted or not, concatenated in order give the cue's original
\* text, every cue keeps its data-time, and after a query of fewer than
\* MinQueryLen characters no highlight span is left.
C23_HighlightingKeepsText ==
    /\ \A i \in Cues : TextContent(cueNodes[i]) = CueText(i)
    /\ dataTime = Document
    /\ (ev = "input" /\ Len(searchTerm) < MinQueryLen) =>
           \A i \in Cues : \A k \in 1..Len(cueNodes[i]) : ~cueNodes[i][k].hl

\* After a step to the previous match a cue is in pieces: text, a span whose
\* text is not the query as typed, text.
C23_Witness ==
    /\ ev = "prev"
    /\ \E i \in Cues : \E k \in 2..(Len(cueNodes[i]) - 1) :
           /\ cueNodes[i][k].hl
           /\ cueNodes[i][k].text # searchTerm
           /\ ~cueNodes[i][k - 1].hl
           /\ ~cueNodes[i][k + 1].hl

\* While userIsScrolling is true the debounce timer is pending.
DebounceTimerPending == userIsScrolling => scrollTimeout \in PendingIds

\* C24: userIsScrolling cannot stay true forever once manual scrolling stops:
\* if time passes and due timers fire, then either userIsScrolling is false
\* again and again or manual scrolls keep coming.
C24_ScrollingFlagClears ==
    (<>[]userIsScrolling) => ([]<>(ev = "manualscroll"))

====
